---------------------------- MODULE Spec2Model ----------------------------
(***************************************************************************)
(* BFCM dashboard: the data ingestion and hourly aggregation pipeline of   *)
(* src/src/App.jsx and its near-duplicate src/unnamed/part_000.            *)
(*                                                                         *)
(* Time.  Instants are epoch times counted in model units; one hour is     *)
(* UnitsPerHour units, so an instant keeps a sub-hour part that the hour   *)
(* truncation removes.  The code's millisecond arithmetic is linear, so    *)
(* the scaling is exact (a day is 24 hours of the same unit in both).      *)
(* The runtime's timezone offset is a whole number of hours, so that       *)
(* truncating local minutes truncates the epoch time to the hour.          *)
(*                                                                         *)
(* Numbers.  Values are JS numbers that hold integers; the JS value NaN    *)
(* is the sentinel NaN, below every value and instant the model draws.     *)
(***************************************************************************)
EXTENDS Integers, Sequences, FiniteSets, TLC

VARIABLES
    variant,            \* which of the two source files is running
    data,               \* useState([]): the master series
    loading,            \* useState(true)
    error,              \* useState(null): <<>> is null, <<m>> a message
    selectedRangeDays,  \* useState(7)
    runs,               \* one entry per call of processAllFiles
    served,             \* the CSV text the endpoint holds for each file
    failures            \* failed fetch attempts so far (bounded)

vars == <<variant, data, loading, error, selectedRangeDays, runs, served,
          failures>>

---------------------------------------------------------------------------
(* Bounds of the model. *)

\* records (data lines) in all four payloads together, pure-function runs
MaxRecords == 2
\* calls of processAllFiles in one behaviour
MaxRuns == 2
\* failed fetch attempts in one behaviour
MaxFailures == 3

---------------------------------------------------------------------------
(* Configuration. *)

MAX_RETRIES == 3
INITIAL_DELAY_MS == 1000
NaN == -1
UnitsPerHour == 2

Hour == UnitsPerHour
Day == 24 * Hour
\* "Mon-DD HH:00" carries no year: it repeats after a (non-leap) year
Year == 365 * Day

TIME_RANGES == <<1, 3, 7, 14, 28>>

ALL_CSV_FILES ==
    << [key |-> "orders",  name |-> "Orders"],
       [key |-> "labels",  name |-> "Shipping Labels"],
       [key |-> "packers", name |-> "Total Packers"],
       [key |-> "pickers", name |-> "Total Pickers"] >>

GROUP_A_FILES == SubSeq(ALL_CSV_FILES, 1, 2)

FileIndex == 1..Len(ALL_CSV_FILES)
SourceKeys == {ALL_CSV_FILES[f].key : f \in FileIndex}

Variants == {"App.jsx", "part_000"}

---------------------------------------------------------------------------
(* Timestamps, CSV text. *)

\* A timestamp field after quote stripping and trim: an ISO string that
\* denotes instant t, a string Date cannot parse, or the empty string.
Iso(t) == [kind |-> "iso", t |-> t]
Garbage == [kind |-> "garbage", t |-> 0]
EmptyTs == [kind |-> "empty", t |-> 0]

\* One CSV line as its first two fields; a line with fewer than two fields
\* is Line(EmptyTs, 0), which is what parseCSV makes of it.
Line(ts, v) == [timestamp |-> ts, value |-> v]
HeaderLine == Line(Garbage, 0)

RECURSIVE FilterTimestamp(_)
FilterTimestamp(items) ==
    IF items = <<>> THEN <<>>
    ELSE IF Head(items).timestamp # EmptyTs
         THEN <<Head(items)>> \o FilterTimestamp(Tail(items))
         ELSE FilterTimestamp(Tail(items))

\* csvText is the sequence of its lines; <<>> is the empty text.
parseCSV(csvText) ==
    IF csvText = <<>> THEN <<>>
    ELSE IF Len(csvText) < 2 THEN <<>>
    ELSE FilterTimestamp(Tail(csvText))

\* new Date(timestampStr).getTime()
DateTime(ts) == IF ts.kind = "iso" THEN ts.t ELSE NaN

\* date.setMinutes(0, 0, 0, 0); date.getTime()
TruncHour(t) == t - (t % Hour)

\* The label "Mon-DD HH:00" of the truncated instant, as the hour of the
\* year it names (<<h>>); <<>> is null.
getHourlyKey(ts) ==
    IF DateTime(ts) = NaN THEN <<>>
    ELSE << (TruncHour(DateTime(ts)) \div Hour) % (Year \div Hour) >>

---------------------------------------------------------------------------
(* Aggregation: hourlyDataMap is a JS Map, i.e. its rows in insertion      *)
(* order, looked up by the label.                                          *)

\* a lookup that never finds the row
MapHasNever(map, hourlyKey) == FALSE

MapHas(map, hourlyKey) == \E i \in 1..Len(map) : map[i].hour = hourlyKey

MapIndex(map, hourlyKey) ==
    CHOOSE i \in 1..Len(map) : map[i].hour = hourlyKey

\* a row that starts with the keys of the first chart's files only
NewRowGroupA(hourlyKey, sortTime) ==
    [hour |-> hourlyKey, sortTime |-> sortTime]
        @@ [k \in {GROUP_A_FILES[f].key : f \in 1..Len(GROUP_A_FILES)} |-> 0]

NewRow(hourlyKey, sortTime) ==
    [hour |-> hourlyKey, sortTime |-> sortTime]
        @@ [k \in {ALL_CSV_FILES[f].key : f \in FileIndex} |-> 0]

\* = in the place of +=
SetValue(currentHour, key, value) ==
    IF key \in DOMAIN currentHour
    THEN [currentHour EXCEPT ![key] = value]
    ELSE currentHour @@ (key :> value)

\* currentHour[key] += item.value (undefined + n is NaN)
AddValue(currentHour, key, value) ==
    IF key \in DOMAIN currentHour
    THEN [currentHour EXCEPT ![key] =
              IF @ = NaN \/ value = NaN THEN NaN ELSE @ + value]
    ELSE currentHour @@ (key :> NaN)

\* the body of parsedData.forEach
AddItem(map, key, item) ==
    LET dateObj == DateTime(item.timestamp) IN
    IF dateObj = NaN THEN map
    ELSE LET sortTime == TruncHour(dateObj)
             hourlyKey == getHourlyKey(item.timestamp)
         IN  IF hourlyKey = <<>> THEN map
             ELSE LET m1 == IF MapHas(map, hourlyKey) THEN map
                            ELSE Append(map, NewRow(hourlyKey, sortTime))
                      i == MapIndex(m1, hourlyKey)
                  IN  [m1 EXCEPT ![i] = AddValue(@, key, item.value)]

RECURSIVE AddItems(_, _, _)
AddItems(map, key, parsedData) ==
    IF parsedData = <<>> THEN map
    ELSE AddItems(AddItem(map, key, Head(parsedData)), key, Tail(parsedData))

\* results.forEach(({ key, csvText }) => ...)
RECURSIVE AddResults(_, _)
AddResults(map, res) ==
    IF res = <<>> THEN map
    ELSE AddResults(AddItems(map, Head(res).key, parseCSV(Head(res).csvText)),
                    Tail(res))

\* a comparator that never asks for a swap
InsertUnsorted(sorted, row) == Append(sorted, row)

\* Array.prototype.sort with (a, b) => a.sortTime - b.sortTime: stable
RECURSIVE InsertSorted(_, _)
InsertSorted(sorted, row) ==
    IF sorted = <<>> THEN <<row>>
    ELSE IF sorted[Len(sorted)].sortTime - row.sortTime <= 0
         THEN Append(sorted, row)
         ELSE Append(InsertSorted(SubSeq(sorted, 1, Len(sorted) - 1), row),
                     sorted[Len(sorted)])

\* the rows left in the order the map met them
UnsortedRows(rows) == rows

RECURSIVE SortRows(_)
SortRows(rows) ==
    IF rows = <<>> THEN <<>>
    ELSE InsertSorted(SortRows(SubSeq(rows, 1, Len(rows) - 1)),
                      rows[Len(rows)])

\* steps 2 and 3 of processAllFiles: finalChartData
finalChartData(res) == SortRows(AddResults(<<>>, res))

---------------------------------------------------------------------------
(* Time filtering. *)

\* > in the place of >=
RECURSIVE FilterAfter(_, _)
FilterAfter(rows, minDate) ==
    IF rows = <<>> THEN <<>>
    ELSE IF Head(rows).sortTime > minDate
         THEN <<Head(rows)>> \o FilterAfter(Tail(rows), minDate)
         ELSE FilterAfter(Tail(rows), minDate)

RECURSIVE FilterFrom(_, _)
FilterFrom(rows, minDate) ==
    IF rows = <<>> THEN <<>>
    ELSE IF Head(rows).sortTime >= minDate
         THEN <<Head(rows)>> \o FilterFrom(Tail(rows), minDate)
         ELSE FilterFrom(Tail(rows), minDate)

\* a window anchored to the first row in the place of the last
RangeFilterFirst(rows, days) ==
    IF Len(rows) = 0 THEN <<>>
    ELSE FilterFrom(rows, rows[1].sortTime - days * 24 * Hour)

RangeFilter(rows, days) ==
    IF Len(rows) = 0 THEN <<>>
    ELSE LET maxDate == rows[Len(rows)].sortTime
             rangeInMs == days * 24 * Hour
             minDate == maxDate - rangeInMs
         IN  FilterFrom(rows, minDate)

\* useMemo(..., [data, selectedRangeDays])
filteredData == RangeFilter(data, selectedRangeDays)

---------------------------------------------------------------------------
(* SummaryWidget: the statistics of the rows it is handed.  A quotient of  *)
(* two numbers is the fraction [n, d], compared and added exactly.         *)

Frac(n, d) == [n |-> n, d |-> d]

FracLess(a, b) == a.n * b.d < b.n * a.d

FracAdd(a, b) == Frac(a.n * b.d + b.n * a.d, a.d * b.d)

\* x || 0
OrZero(x) == IF x = NaN \/ x = 0 THEN 0 ELSE x

\* (item.packers || 0) + (item.pickers || 0)
LaborOf(item) == OrZero(item.packers) + OrZero(item.pickers)

\* an efficiency series with a 0 for a row without labor
RECURSIVE hourlyEfficiencyWithZeros(_)
hourlyEfficiencyWithZeros(rows) ==
    IF rows = <<>> THEN <<>>
    ELSE <<IF LaborOf(Head(rows)) > 0
           THEN Frac(OrZero(Head(rows).labels), LaborOf(Head(rows)))
           ELSE Frac(0, 1)>>
         \o hourlyEfficiencyWithZeros(Tail(rows))

\* if (labor > 0) hourlyEfficiency.push(labels / labor)
RECURSIVE hourlyEfficiency(_)
hourlyEfficiency(rows) ==
    IF rows = <<>> THEN <<>>
    ELSE (IF LaborOf(Head(rows)) > 0
          THEN <<Frac(OrZero(Head(rows).labels), LaborOf(Head(rows)))>>
          ELSE <<>>)
         \o hourlyEfficiency(Tail(rows))

\* Math.min(...arr), Math.max(...arr), arr.reduce((a, b) => a + b, 0)
RECURSIVE MathMin(_)
MathMin(arr) ==
    IF Len(arr) = 1 THEN arr[1]
    ELSE LET m == MathMin(Tail(arr))
         IN  IF FracLess(m, Head(arr)) THEN m ELSE Head(arr)

RECURSIVE MathMax(_)
MathMax(arr) ==
    IF Len(arr) = 1 THEN arr[1]
    ELSE LET m == MathMax(Tail(arr))
         IN  IF FracLess(Head(arr), m) THEN m ELSE Head(arr)

RECURSIVE Reduce(_, _)
Reduce(arr, acc) ==
    IF arr = <<>> THEN acc ELSE Reduce(Tail(arr), FracAdd(acc, Head(arr)))

getStats(arr) ==
    IF Len(arr) = 0
    THEN [min |-> Frac(0, 1), max |-> Frac(0, 1), avg |-> Frac(0, 1)]
    ELSE LET sum == Reduce(arr, Frac(0, 1))
         IN  [min |-> MathMin(arr),
              max |-> MathMax(arr),
              avg |-> Frac(sum.n, sum.d * Len(arr))]

\* new Date(item.sortTime).toISOString().split('T')[0]: the UTC date, as
\* the number of days since the epoch
DateKey(sortTime) == sortTime \div Day

\* if (item.sortTime): 0 and NaN are falsy
Truthy(x) == x # 0 /\ x # NaN

\* the daily aggregation of data.forEach; dailyMap in insertion order
RECURSIVE AddDaily(_, _)
AddDaily(dailyMap, rows) ==
    IF rows = <<>> THEN dailyMap
    ELSE LET item == Head(rows)
             dateKey == DateKey(item.sortTime)
             m1 == IF \E i \in 1..Len(dailyMap) : dailyMap[i].date = dateKey
                   THEN dailyMap
                   ELSE Append(dailyMap,
                               [date |-> dateKey, orders |-> 0, labels |-> 0])
             i == CHOOSE i \in 1..Len(m1) : m1[i].date = dateKey
         IN  IF Truthy(item.sortTime)
             THEN AddDaily([m1 EXCEPT
                              ![i].orders = @ + OrZero(item.orders),
                              ![i].labels = @ + OrZero(item.labels)],
                           Tail(rows))
             ELSE AddDaily(dailyMap, Tail(rows))

\* dailyAggregates.forEach: if (day[metric] > max.count) max = {...};
\* the date 'N/A' is <<>>
RECURSIVE MaxDaily(_, _, _)
MaxDaily(dailyAggregates, metric, max) ==
    IF dailyAggregates = <<>> THEN max
    ELSE LET day == Head(dailyAggregates)
         IN  MaxDaily(Tail(dailyAggregates), metric,
                      IF day[metric] > max.count
                      THEN [count |-> day[metric], date |-> <<day.date>>]
                      ELSE max)

\* aggregates, of the rows SummaryWidget is handed
SummaryWidget(rows) ==
    IF Len(rows) = 0
    THEN [maxDailyOrders |-> [count |-> 0, date |-> <<>>],
          maxDailyLabels |-> [count |-> 0, date |-> <<>>],
          labelsPerLabor |-> getStats(<<>>)]
    ELSE LET dailyAggregates == AddDaily(<<>>, rows)
         IN  [maxDailyOrders |->
                  MaxDaily(dailyAggregates, "orders",
                           [count |-> 0, date |-> <<>>]),
              maxDailyLabels |->
                  MaxDaily(dailyAggregates, "labels",
                           [count |-> 0, date |-> <<>>]),
              labelsPerLabor |-> getStats(hourlyEfficiency(rows))]

---------------------------------------------------------------------------
(* fetchWithRetry: one call is one fetcher of a run. *)

\* What one attempt can come to: fetch() rejects (or reading the body
\* does), or a response arrives, with res.ok or without it.
ErrorPage == <<Line(Garbage, 0), Line(Garbage, 0)>>

T0 == Day

Csv1 == <<HeaderLine, Line(Iso(T0 + Day), 1), Line(Iso(T0), 2),
          Line(Iso(T0 + 1), 1)>>
Csv2 == <<HeaderLine, Line(Garbage, 2), Line(Iso(T0 + Year), 2),
          Line(EmptyTs, 1)>>

\* what the endpoint holds, file by file, while the component runs
Feeds ==
    { [orders |-> Csv1, labels |-> Csv2, packers |-> Csv2, pickers |-> Csv1],
      [orders |-> Csv2, labels |-> Csv1, packers |-> <<>>, pickers |-> Csv2] }

\* what an attempt to fetch a file that holds csv can come to
Responses(csv) ==
    { [kind |-> "network", ok |-> FALSE, body |-> <<>>],
      [kind |-> "http", ok |-> FALSE, body |-> ErrorPage],
      [kind |-> "ok", ok |-> TRUE, body |-> csv] }

\* the try block without its check of res.ok
AttemptRejected(resp) == resp.kind = "network"

\* the try block throws: fetch rejected, or !res.ok
AttemptFailed(resp) == resp.kind = "network" \/ ~resp.ok

\* Error messages, by what their text names.
Message(label, attempts, detail) ==
    [label |-> label, attempts |-> attempts, detail |-> detail]

\* error.message of what the try block threw
UnderlyingMessage(resp) == Message("", 0, resp.kind)

UnknownMessage == Message("", 0, "unknown")
EmptyMessage == Message("", 0, "")

\* what fetchWithRetry throws when i === retries - 1
ExhaustedError(v, name, resp) ==
    IF v = "App.jsx"
    THEN [message |-> Message(name, MAX_RETRIES, "")]
    ELSE [message |-> UnderlyingMessage(resp)]

IsLastAttempt(i, retries) == i = retries - 1

\* a backoff that never grows
SameDelay(delay) == delay

\* delay *= 2
NextDelay(delay) == delay * 2

NewFetch ==
    [pc |-> "fetch", i |-> 0, delay |-> INITIAL_DELAY_MS, delays |-> <<>>,
     outcome |-> "pending", text |-> <<>>, thrown |-> <<>>]

\* A call of processAllFiles: its fetchers, how its await ended, what it
\* has set; afterEnd records that a fetcher of it went on after it ended.
NewRun ==
    [status |-> "pending", dataSet |-> FALSE, errorSet |-> FALSE,
     afterEnd |-> FALSE, fetch |-> [k \in SourceKeys |-> NewFetch]]

NameOf(key) ==
    LET f == CHOOSE f \in FileIndex : ALL_CSV_FILES[f].key = key
    IN  ALL_CSV_FILES[f].name

\* Promise.allSettled in the place of Promise.all: resolves when every
\* promise has settled and never rejects
PromiseAllSettled(fetch) ==
    IF \A k \in DOMAIN fetch : fetch[k].pc \in {"returned", "thrown"}
    THEN "resolved"
    ELSE "pending"

\* Promise.race in the place of Promise.all: settles as the first promise
\* to settle does
PromiseRace(fetch) ==
    IF \E k \in DOMAIN fetch : fetch[k].pc = "thrown" THEN "rejected"
    ELSE IF \E k \in DOMAIN fetch : fetch[k].pc = "returned" THEN "resolved"
    ELSE "pending"

\* Promise.all(fetchPromises): rejects with the first rejection, resolves
\* when every promise has resolved.
PromiseAll(fetch) ==
    IF \E k \in DOMAIN fetch : fetch[k].pc = "thrown" THEN "rejected"
    ELSE IF \A k \in DOMAIN fetch : fetch[k].pc = "returned" THEN "resolved"
    ELSE "pending"

\* an array filled as the fetches finish: the files that needed fewer
\* attempts first
ResultsByAttempts(fetch) ==
    LET rank(f) == fetch[ALL_CSV_FILES[f].key].i * (Len(ALL_CSV_FILES) + 1) + f
        p == CHOOSE q \in Permutations(FileIndex) :
                 \A a, b \in FileIndex : a < b => rank(q[a]) < rank(q[b])
    IN  [n \in FileIndex |->
            [key |-> ALL_CSV_FILES[p[n]].key,
             csvText |-> fetch[ALL_CSV_FILES[p[n]].key].text]]

\* the array Promise.all resolves to, in the order of ALL_CSV_FILES
ResultsOf(fetch) ==
    [f \in FileIndex |->
        [key |-> ALL_CSV_FILES[f].key,
         csvText |-> fetch[ALL_CSV_FILES[f].key].text]]

\* err.message || "An unknown error occurred while loading data."
ErrorText(err) ==
    IF err.message = EmptyMessage THEN UnknownMessage ELSE err.message

---------------------------------------------------------------------------
(* The component. *)

Init ==
    /\ variant \in Variants
    /\ data = <<>>
    /\ loading = TRUE
    /\ error = <<>>
    /\ selectedRangeDays = 7
    /\ runs = <<>>
    /\ served \in Feeds
    /\ failures = 0

\* processAllFiles without its setLoading(true)
StartRunNotLoading ==
    /\ Len(runs) < MaxRuns
    /\ error' = <<>>
    /\ runs' = Append(runs, NewRun)
    /\ UNCHANGED <<variant, data, loading, selectedRangeDays, served, failures>>

\* processAllFiles up to its await: setLoading(true); setError(null); one
\* fetchWithRetry per file, each issuing its first fetch.
StartRun ==
    /\ Len(runs) < MaxRuns
    /\ loading' = TRUE
    /\ error' = <<>>
    /\ runs' = Append(runs, NewRun)
    /\ UNCHANGED <<variant, data, selectedRangeDays, served, failures>>

\* useEffect(() => { processAllFiles(); }, [processAllFiles])
Mount ==
    /\ runs = <<>>
    /\ StartRun

\* a refresh button that is never disabled
ClickRefreshAnytime ==
    /\ variant = "part_000"
    /\ runs # <<>>
    /\ StartRun

\* part_000: the refresh button, disabled={loading}
ClickRefresh ==
    /\ variant = "part_000"
    /\ runs # <<>>
    /\ ~loading
    /\ StartRun

\* App.jsx: RETRY_FETCH(), rendered when !loading and error
ClickRetry ==
    /\ variant = "App.jsx"
    /\ runs # <<>>
    /\ ~loading
    /\ error # <<>>
    /\ StartRun

\* a continuation that runs again at every settlement of a fetcher
AlreadySettledNever(r) == FALSE

\* the promise processAllFiles awaits has settled: the code after the
\* await has run, and runs once
AlreadySettled(r) == runs[r].status # "pending"

\* a catch block that also clears the series: setData([])
SettleClearing(r, fetch2, err) ==
    LET outcome == PromiseAll(fetch2) IN
    IF AlreadySettled(r) \/ outcome = "pending"
    THEN /\ runs' = [runs EXCEPT ![r].fetch = fetch2,
                                 ![r].afterEnd = @ \/ AlreadySettled(r)]
         /\ UNCHANGED <<data, loading, error>>
    ELSE IF outcome = "resolved"
    THEN /\ data' = finalChartData(ResultsOf(fetch2))
         /\ loading' = FALSE
         /\ runs' = [runs EXCEPT ![r].fetch = fetch2,
                                 ![r].status = "resolved",
                                 ![r].dataSet = TRUE]
         /\ UNCHANGED error
    ELSE /\ error' = <<ErrorText(err)>>
         /\ data' = <<>>
         /\ loading' = FALSE
         /\ runs' = [runs EXCEPT ![r].fetch = fetch2,
                                 ![r].status = "rejected",
                                 ![r].errorSet = TRUE]

\* The rest of processAllFiles, run when Promise.all settles for run r
\* whose fetchers have become fetch2; err is the rejection.
Settle(r, fetch2, err) ==
    LET outcome == PromiseAll(fetch2) IN
    IF AlreadySettled(r) \/ outcome = "pending"
    THEN /\ runs' = [runs EXCEPT ![r].fetch = fetch2,
                                 ![r].afterEnd = @ \/ AlreadySettled(r)]
         /\ UNCHANGED <<data, loading, error>>
    ELSE IF outcome = "resolved"
    THEN /\ data' = finalChartData(ResultsOf(fetch2))
         /\ loading' = FALSE
         /\ runs' = [runs EXCEPT ![r].fetch = fetch2,
                                 ![r].status = "resolved",
                                 ![r].dataSet = TRUE]
         /\ UNCHANGED error
    ELSE /\ error' = <<ErrorText(err)>>
         /\ loading' = FALSE
         /\ runs' = [runs EXCEPT ![r].fetch = fetch2,
                                 ![r].status = "rejected",
                                 ![r].errorSet = TRUE]
         /\ UNCHANGED data

\* an attempt's response is usable: return await res.text()
FetchReturns(r, k, resp) ==
    /\ runs[r].fetch[k].pc = "fetch"
    /\ ~AttemptFailed(resp)
    /\ Settle(r, [runs[r].fetch EXCEPT
                    ![k] = [@ EXCEPT !.pc = "returned",
                                     !.text = resp.body,
                                     !.outcome = resp.kind]],
              [message |-> EmptyMessage])
    /\ UNCHANGED <<variant, selectedRangeDays, served, failures>>

\* an attempt fails and is not the last: setTimeout(resolve, delay)
FetchRetries(r, k, resp) ==
    /\ runs[r].fetch[k].pc = "fetch"
    /\ AttemptFailed(resp)
    /\ failures < MaxFailures
    /\ ~IsLastAttempt(runs[r].fetch[k].i, MAX_RETRIES)
    /\ runs' = [runs EXCEPT ![r].fetch[k] =
                   [@ EXCEPT !.pc = "sleep",
                             !.delays = Append(@, runs[r].fetch[k].delay),
                             !.outcome = resp.kind],
                            ![r].afterEnd = @ \/ AlreadySettled(r)]
    /\ failures' = failures + 1
    /\ UNCHANGED <<variant, data, loading, error, selectedRangeDays, served>>

\* a timer whose promise is never resolved
TimerNeverFires(r, k) ==
    /\ runs[r].fetch[k].pc = "sleep"
    /\ UNCHANGED vars

\* the timer fires: delay *= 2; i++; the next fetch is issued
TimerFires(r, k) ==
    /\ runs[r].fetch[k].pc = "sleep"
    /\ runs' = [runs EXCEPT ![r].fetch[k] =
                   [@ EXCEPT !.pc = "fetch",
                             !.outcome = "pending",
                             !.delay = NextDelay(@),
                             !.i = @ + 1],
                            ![r].afterEnd = @ \/ AlreadySettled(r)]
    /\ UNCHANGED <<variant, data, loading, error, selectedRangeDays, served,
                   failures>>

\* the last attempt fails: fetchWithRetry throws
FetchThrows(r, k, resp) ==
    /\ runs[r].fetch[k].pc = "fetch"
    /\ AttemptFailed(resp)
    /\ failures < MaxFailures
    /\ IsLastAttempt(runs[r].fetch[k].i, MAX_RETRIES)
    /\ LET err == ExhaustedError(variant, NameOf(k), resp) IN
       Settle(r, [runs[r].fetch EXCEPT
                    ![k] = [@ EXCEPT !.pc = "thrown",
                                     !.thrown = <<err>>,
                                     !.outcome = resp.kind]],
              err)
    /\ failures' = failures + 1
    /\ UNCHANGED <<variant, selectedRangeDays, served>>

\* TimeRangeSelector: onSelectRange(range.days), where it is rendered
setSelectedRangeDays(days) ==
    /\ IF variant = "App.jsx" THEN ~loading /\ error = <<>>
       ELSE ~(loading /\ Len(data) = 0)
    /\ selectedRangeDays' = days
    /\ UNCHANGED <<variant, data, loading, error, runs, served, failures>>

\* What App renders: the screen, the series handed to SummaryWidget and
\* to the charts (<<>> where they are not rendered), the error text shown.
AppView ==
    IF variant = "App.jsx"
    THEN IF loading
         THEN [screen |-> "loading", series |-> <<>>, shown |-> <<>>]
         ELSE IF error # <<>>
         THEN [screen |-> "error", series |-> <<>>, shown |-> error]
         ELSE [screen |-> "main", series |-> filteredData, shown |-> <<>>]
    ELSE IF loading /\ Len(data) = 0
         THEN [screen |-> "loading", series |-> <<>>, shown |-> error]
         ELSE [screen |-> "main", series |-> filteredData, shown |-> error]

Next ==
    \/ Mount
    \/ ClickRefresh
    \/ ClickRetry
    \/ \E r \in 1..Len(runs), k \in SourceKeys :
       \E resp \in Responses(served[k]) :
          \/ FetchReturns(r, k, resp)
          \/ FetchRetries(r, k, resp)
          \/ FetchThrows(r, k, resp)
    \/ \E r \in 1..Len(runs), k \in SourceKeys : TimerFires(r, k)

\* The runs of the component.  The range selector writes selectedRangeDays
\* only, which no step of a run reads; SpecView exercises it.
Spec == Init /\ [][Next]_vars

\* an attempt of some fetcher resolves or rejects
AttemptEnds ==
    \E r \in 1..Len(runs), k \in SourceKeys :
        \E resp \in Responses(served[k]) :
            \/ FetchReturns(r, k, resp)
            \/ FetchRetries(r, k, resp)
            \/ FetchThrows(r, k, resp)

\* the backoff timer of some fetcher fires
BackoffEnds ==
    \E r \in 1..Len(runs), k \in SourceKeys : TimerFires(r, k)

\* an attempt of some fetcher is pending: ENABLED <<AttemptEnds>>_vars (a
\* pending attempt can always end, by a response with a success status)
AttemptPending ==
    \E r \in 1..Len(runs), k \in SourceKeys : runs[r].fetch[k].pc = "fetch"

\* The runs under fair scheduling: the mount effect runs, every backoff
\* timer eventually fires and every attempt eventually resolves or rejects
\* (the clicks are up to the user).  A run has finitely many attempts and
\* timers, so fairness of "some attempt ends" and of "some timer fires" is
\* fairness of each.  The last conjunct is WF_vars(AttemptEnds) written
\* out, with AttemptPending for ENABLED <<AttemptEnds>>_vars.
Fairness ==
    /\ WF_vars(Mount)
    /\ WF_vars(BackoffEnds)
    /\ ([]<>~AttemptPending \/ []<><<AttemptEnds>>_vars)

\* what the endpoint holds in the runs under fair scheduling: two records
\* of two hours
LiveFeed ==
    [orders  |-> <<HeaderLine, Line(Iso(T0), 1)>>,
     labels  |-> <<HeaderLine, Line(Iso(T0 + Hour), 2)>>,
     packers |-> <<HeaderLine>>,
     pickers |-> <<>>]

InitLive ==
    /\ variant \in Variants
    /\ data = <<>>
    /\ loading = TRUE
    /\ error = <<>>
    /\ selectedRangeDays = 7
    /\ runs = <<>>
    /\ served = LiveFeed
    /\ failures = 0

SpecLive == InitLive /\ [][Next]_vars /\ Fairness

---------------------------------------------------------------------------
(* Aggregation and time filtering as functions of the payloads.  The       *)
(* endpoint holds any CSV texts of at most MaxRecords data lines in all    *)
(* and the run that loads them meets no failure (SpecAgg); the range       *)
(* selector is then used (SpecView).  Aggregation and filtering are line   *)
(* for line the same in the two source files.                              *)

ViewTimestamps ==
    {Iso(T0), Iso(T0 + 1), Iso(T0 + Day), Iso(T0 + Year), Garbage, EmptyTs}

ViewValues == {1, 2}

ViewLines == {Line(ts, v) : ts \in ViewTimestamps, v \in ViewValues}

\* the data lines of all files in some order of writing: <<key, line>>
ViewWrites ==
    UNION {[1..n -> SourceKeys \X ViewLines] : n \in 0..MaxRecords}

RECURSIVE LinesOf(_, _)
LinesOf(writes, key) ==
    IF writes = <<>> THEN <<>>
    ELSE IF Head(writes)[1] = key
         THEN <<Head(writes)[2]>> \o LinesOf(Tail(writes), key)
         ELSE LinesOf(Tail(writes), key)

InitView ==
    /\ variant = "App.jsx"
    /\ data = <<>>
    /\ loading = TRUE
    /\ error = <<>>
    /\ selectedRangeDays = 7
    /\ runs = <<>>
    /\ \E w \in ViewWrites :
          served = [k \in SourceKeys |-> <<HeaderLine>> \o LinesOf(w, k)]
    /\ failures = 0

\* the mount run, every fetch returning at its first attempt
LoadAll ==
    /\ runs = <<>>
    /\ LET fetch2 == [k \in SourceKeys |->
                        [NewFetch EXCEPT !.pc = "returned",
                                         !.outcome = "ok",
                                         !.text = served[k]]]
       IN  /\ data' = finalChartData(ResultsOf(fetch2))
           /\ runs' = <<[NewRun EXCEPT !.fetch = fetch2,
                                       !.status = "resolved",
                                       !.dataSet = TRUE]>>
    /\ loading' = FALSE
    /\ error' = <<>>
    /\ UNCHANGED <<variant, selectedRangeDays, served, failures>>

NextAgg == LoadAll

SpecAgg == InitView /\ [][NextAgg]_vars

NextView ==
    \/ LoadAll
    \/ \E d \in 1..Len(TIME_RANGES) : setSelectedRangeDays(TIME_RANGES[d])

SpecView == InitView /\ [][NextView]_vars

---------------------------------------------------------------------------
(* A series of one row per day: the endpoint holds one record for each of  *)
(* the days 2024-01-01 .. 2024-01-10, at 00:00 UTC, each in the Orders or   *)
(* in the Shipping Labels file (SpecDaily).                                *)

\* 2024-01-01T00:00:00Z is 19723 days after the epoch
Jan2024(day) == (19723 + (day - 1)) * Day

DailyDays == 1..10

\* the file that holds each day's record
DailyPlacings == [DailyDays -> {"orders", "labels"}]

RECURSIVE DailyLines(_, _, _)
DailyLines(placing, key, day) ==
    IF day \notin DailyDays THEN <<>>
    ELSE (IF placing[day] = key THEN <<Line(Iso(Jan2024(day)), 1)>> ELSE <<>>)
         \o DailyLines(placing, key, day + 1)

InitDaily ==
    /\ variant \in Variants
    /\ data = <<>>
    /\ loading = TRUE
    /\ error = <<>>
    /\ selectedRangeDays = 7
    /\ runs = <<>>
    /\ \E placing \in DailyPlacings :
          served = [k \in SourceKeys |->
                       <<HeaderLine>> \o DailyLines(placing, k, 1)]
    /\ failures = 0

SpecDaily == InitDaily /\ [][NextView]_vars

---------------------------------------------------------------------------
(* The statistics of the window: the endpoint holds any of a few records   *)
(* of two hours of one day, of a later day and of the first hour of the    *)
(* epoch (SpecStats).                                                      *)

\* 1970-01-02T00:00Z and the hour after it, 1970-01-04T00:00Z, and an
\* instant within 1970-01-01T00:00Z .. 01:00Z
StatsH1 == Iso(T0)
StatsH2 == Iso(T0 + Hour)
StatsD2 == Iso(T0 + 2 * Day)
StatsEpoch == Iso(1)

\* the records the files may hold: <<key, timestamp, value>>
StatsRecords ==
    << <<"labels",  StatsH1, 10>>,
       <<"labels",  StatsH2, 10>>,
       <<"packers", StatsH2, 2>>,
       <<"pickers", StatsH2, 3>>,
       <<"packers", StatsH1, 1>>,
       <<"orders",  StatsH1, 1>>,
       <<"orders",  StatsH2, 1>>,
       <<"orders",  StatsD2, 2>>,
       <<"labels",  StatsD2, 30>>,
       <<"orders",  StatsEpoch, 3>> >>

RECURSIVE StatsLines(_, _, _)
StatsLines(chosen, key, n) ==
    IF n > Len(StatsRecords) THEN <<>>
    ELSE (IF n \in chosen /\ StatsRecords[n][1] = key
          THEN <<Line(StatsRecords[n][2], StatsRecords[n][3])>>
          ELSE <<>>)
         \o StatsLines(chosen, key, n + 1)

InitStats ==
    /\ variant \in Variants
    /\ data = <<>>
    /\ loading = TRUE
    /\ error = <<>>
    /\ selectedRangeDays = 7
    /\ runs = <<>>
    /\ \E chosen \in SUBSET (1..Len(StatsRecords)) :
          served = [k \in SourceKeys |->
                       <<HeaderLine>> \o StatsLines(chosen, k, 1)]
    /\ failures = 0

SpecStats == InitStats /\ [][NextView]_vars

---------------------------------------------------------------------------
(* Properties of the runs (Spec). *)

Fetchers == {<<r, k>> : r \in 1..Len(runs), k \in SourceKeys}
Fetcher(rk) == runs[rk[1]].fetch[rk[2]]

\* what a run that every source answered would show
FullSeries ==
    finalChartData([f \in FileIndex |->
                       [key |-> ALL_CSV_FILES[f].key,
                        csvText |-> served[ALL_CSV_FILES[f].key]]])

\* C1: a run one of whose sources has exhausted its retries has failed: it
\* is rejected, it never called setData (the series is empty or that of a
\* run every source answered, never one built from the sources that did
\* answer), and it set the error; while it is the latest run the error
\* state is set and loading is over.
C1_ExhaustedSourceFailsRun ==
    /\ \A r \in 1..Len(runs) :
          (\E k \in SourceKeys : runs[r].fetch[k].pc = "thrown")
          => /\ runs[r].status = "rejected"
             /\ ~runs[r].dataSet
             /\ runs[r].errorSet
             /\ r = Len(runs) => error # <<>> /\ ~loading
    /\ data \in {<<>>, FullSeries}

\* C1 witness: a run has failed while others of its sources had answered.
C1_Witness ==
    \E r \in 1..Len(runs) :
        /\ runs[r].status = "rejected"
        /\ \E k \in SourceKeys : runs[r].fetch[k].pc = "thrown"
        /\ \E k \in SourceKeys : /\ runs[r].fetch[k].pc = "returned"
                                 /\ parseCSV(runs[r].fetch[k].text) # <<>>

\* C2: a fetch that succeeds at its third attempt returns the payload and
\* has slept exactly twice, 1000 ms and then 2000 ms; a fetch that has
\* failed three times has thrown, having slept exactly twice (nothing
\* after the last failure).  In general the k-th delay is 1000 * 2^(k-1).
C2_BackoffDelays ==
    \A rk \in Fetchers :
        LET f == Fetcher(rk) IN
        /\ f.pc = "returned" /\ f.i = 2
              => f.text = served[rk[2]] /\ f.delays = <<1000, 2000>>
        /\ f.pc = "thrown"
              => f.i = 2 /\ f.thrown # <<>> /\ f.delays = <<1000, 2000>>
        /\ f.pc = "returned" /\ f.i = 1 => f.delays = <<1000>>
        /\ f.pc = "returned" /\ f.i = 0 => f.delays = <<>>
        /\ Len(f.delays) <= 2

\* C2 witness: a fetch has returned at its third attempt.
C2_Witness ==
    \E rk \in Fetchers :
        /\ Fetcher(rk).pc = "returned"
        /\ Fetcher(rk).i = 2
        /\ Fetcher(rk).text # <<>>

\* C3: every step keeps a fetcher within 3 attempts, issues a further
\* attempt only from the backoff that follows a failed attempt, issues none
\* once an attempt has succeeded, and takes a response without a success
\* status as a failure: what a fetcher returns is the body of a response
\* with a success status, never that of an error response.
C3_Step ==
    \A rk \in Fetchers :
        LET f == Fetcher(rk)
            g == runs'[rk[1]].fetch[rk[2]]
        IN  /\ g.i + 1 <= 3
            /\ g.i # f.i => /\ g.i = f.i + 1
                            /\ f.pc = "sleep"
                            /\ f.outcome \in {"network", "http"}
            /\ f.pc = "returned" => g = f
            /\ g.pc = "returned" => /\ g.outcome = "ok"
                                    /\ g.text = served[rk[2]]
                                    /\ g.text # ErrorPage
            /\ f.pc = "fetch" /\ g.outcome = "http"
                  => g.pc \in {"sleep", "thrown"} /\ g.text = <<>>

C3_AttemptsOnlyAfterFailure == [][C3_Step]_vars

\* C3 witness: a second attempt met an HTTP error status and the fetcher
\* is backing off before its third.
C3_Witness ==
    \E rk \in Fetchers :
        /\ Fetcher(rk).pc = "sleep"
        /\ Fetcher(rk).outcome = "http"
        /\ Fetcher(rk).i = 1

\* C4 (as claimed): the error a fetcher throws on exhausting its attempts
\* names the source's display name and the attempt count and keeps the
\* detail of the last attempt's failure.
C4_ErrorNamesSourceAndCause ==
    \A rk \in Fetchers :
        LET f == Fetcher(rk) IN
        f.pc = "thrown"
        => /\ f.thrown[1].message.label = NameOf(rk[2])
           /\ f.thrown[1].message.attempts = 3
           /\ f.thrown[1].message.detail = f.outcome

\* C6: every row of the series has a number (not NaN) under each of the
\* four source keys, and 0 under a key whose source has no record with the
\* row's hour.
HasRecordAt(key, hour) ==
    \E j \in 1..Len(parseCSV(served[key])) :
        getHourlyKey(parseCSV(served[key])[j].timestamp) = hour

C6_EveryKeyDefined ==
    \A i \in 1..Len(data) :
        \A key \in {"orders", "labels", "packers", "pickers"} :
            /\ key \in DOMAIN data[i]
            /\ data[i][key] # NaN
            /\ ~HasRecordAt(key, data[i].hour) => data[i][key] = 0

\* C6 witness: a row with a value from one source and 0 for another.
C6_Witness ==
    \E i \in 1..Len(data) :
        \E k1, k2 \in SourceKeys :
            /\ k1 \in DOMAIN data[i] /\ k2 \in DOMAIN data[i]
            /\ data[i][k1] > 0 /\ data[i][k2] = 0
            /\ ~HasRecordAt(k2, data[i].hour)

\* C7: the series is non-decreasing in sortTime over adjacent rows, in
\* every state.
C7_SortedBySortTime ==
    \A i \in 1..(Len(data) - 1) : data[i].sortTime <= data[i + 1].sortTime

\* C7 witness: a series of several rows, whose rows were first met in
\* another order, is still there after a later run has failed.
C7_Witness ==
    /\ Len(data) >= 2
    /\ Len(runs) = 2
    /\ runs[1].status = "resolved"
    /\ runs[2].status = "rejected"
    /\ AddResults(<<>>, ResultsOf(runs[1].fetch)) # data

\* the series run r handed to setData
SeriesOf(r) == finalChartData(ResultsOf(runs[r].fetch))

\* the latest run before r that resolved (0: none)
LastResolvedBefore(r) ==
    LET S == {q \in 1..(r - 1) : runs[q].status = "resolved"}
    IN  IF S = {} THEN 0 ELSE CHOOSE q \in S : \A p \in S : p <= q

\* C12: once a run has succeeded with a non-empty series, a later run that
\* has failed has left the data state as that series (not cleared, not
\* replaced); while the failed run is the latest run, loading is over, the
\* error is set and the view shows the window of that series.
C12_StaleDataKept ==
    \A r \in 1..Len(runs) :
        LET q == LastResolvedBefore(r) IN
        /\ runs[r].status = "rejected"
        /\ r = Len(runs)
        /\ q > 0
        /\ SeriesOf(IF q > 0 THEN q ELSE r) # <<>>
        => /\ data = SeriesOf(q)
           /\ ~loading /\ error # <<>>
           /\ AppView.screen = "main"
           /\ AppView.series = RangeFilter(SeriesOf(q), selectedRangeDays)
           /\ AppView.series # <<>>

\* C12 witness: a refresh has failed after the first run had loaded a
\* series, and the series is on display with the error.
C12_Witness ==
    /\ Len(runs) >= 2
    /\ runs[1].status = "resolved"
    /\ runs[Len(runs)].status = "rejected"
    /\ data # <<>>
    /\ AppView.screen = "main"
    /\ AppView.shown # <<>>

\* run r is in flight: triggered, and neither data nor error set by it
InFlight(r) == runs[r].status = "pending"

\* C13: loading is true in every state in which a run is in flight, from
\* its trigger until it has set the data or the error, and it is false once
\* the run has ended (no run in flight after the first was triggered),
\* whether the run set the data or the error.
C13_LoadingWhileInFlight ==
    /\ (\E r \in 1..Len(runs) : InFlight(r)) => loading
    /\ runs # <<>> /\ (\A r \in 1..Len(runs) : ~InFlight(r)) => ~loading
    /\ \A r \in 1..Len(runs) :
          /\ InFlight(r) <=> ~runs[r].dataSet /\ ~runs[r].errorSet
          /\ runs[r].dataSet <=> runs[r].status = "resolved"
          /\ runs[r].errorSet <=> runs[r].status = "rejected"

\* C13 witness: a second run is in flight, with a fetcher in backoff, after
\* the first run has ended and cleared loading.
C13_Witness ==
    /\ Len(runs) = 2
    /\ ~InFlight(1)
    /\ InFlight(2)
    /\ loading
    /\ \E k \in SourceKeys : runs[2].fetch[k].pc = "sleep"

\* fetcher k of run r is still attempting or waiting in backoff
Unsettled(r, k) == runs[r].fetch[k].pc \in {"fetch", "sleep"}

\* C16 (as claimed): a run that has completed (set data or error) has no
\* fetch that is still attempting or waiting in backoff: each of its four
\* fetches has returned or has exhausted its retries.
C16_CompletesWhenAllSettled ==
    \A r \in 1..Len(runs) :
        ~InFlight(r) => \A k \in SourceKeys : ~Unsettled(r, k)

\* C16 (amended): a run completes with the data only when every one of its
\* four fetches has succeeded, and it completes with the error as soon as
\* one fetch has exhausted its retries, whatever the others are doing; a
\* run is in flight exactly while no fetch of it has exhausted its retries
\* and some fetch is still attempting or waiting in backoff.
C16_CompletesOnFirstExhaustion ==
    \A r \in 1..Len(runs) :
        /\ runs[r].status = "resolved"
              <=> \A k \in SourceKeys : runs[r].fetch[k].pc = "returned"
        /\ runs[r].status = "rejected"
              <=> \E k \in SourceKeys : /\ runs[r].fetch[k].pc = "thrown"
                                        /\ runs[r].fetch[k].i = 3 - 1
        /\ InFlight(r)
              <=> /\ \A k \in SourceKeys : runs[r].fetch[k].pc # "thrown"
                  /\ \E k \in SourceKeys : Unsettled(r, k)
        /\ ~InFlight(r) /\ r = Len(runs) => ~loading

\* C16 witness: the latest run has completed with the error while another
\* of its fetches is still attempting.
C16_Witness ==
    /\ runs # <<>>
    /\ runs[Len(runs)].status = "rejected"
    /\ ~loading /\ error # <<>>
    /\ \E k \in SourceKeys : Unsettled(Len(runs), k)

\* C17: whatever the order in which the fetches of a run completed and
\* however many attempts each needed, the run that succeeds hands to the
\* aggregation the payloads in the order of the configuration, and the
\* series it sets is the one series the payloads determine: every row,
\* value, sortTime and the order of the rows.
C17_SameSeriesInAnyInterleaving ==
    \A r \in 1..Len(runs) :
        runs[r].status = "resolved"
        => /\ \A f \in FileIndex :
                 ResultsOf(runs[r].fetch)[f] =
                     [key |-> ALL_CSV_FILES[f].key,
                      csvText |-> served[ALL_CSV_FILES[f].key]]
           /\ data = FullSeries

\* C17 witness: a run has succeeded whose fetches needed different numbers
\* of attempts, with payloads whose series depends on the order in which
\* the files are aggregated.
C17_Witness ==
    \E r \in 1..Len(runs) :
        /\ runs[r].status = "resolved"
        /\ \E k1, k2 \in SourceKeys :
              runs[r].fetch[k1].i = 0 /\ runs[r].fetch[k2].i = 2
        /\ \E q \in Permutations(FileIndex) :
              finalChartData([n \in FileIndex |->
                  [key |-> ALL_CSV_FILES[q[n]].key,
                   csvText |-> served[ALL_CSV_FILES[q[n]].key]]]) # data

\* C18: a step of a fetcher of a run that has ended (its later success,
\* failure or timer) changes neither data nor error nor loading nor what
\* the run has set; the data is written only by the step in which a run in
\* flight resolves and the error only by the step in which a run in
\* flight rejects (or is cleared by the start of a run), and a run that
\* has ended never is in flight again: each run writes data at most once,
\* error at most once, and never both.
C18_Step ==
    /\ \A r \in 1..Len(runs) :
          /\ ~InFlight(r)
                => /\ runs'[r].status = runs[r].status
                   /\ runs'[r].dataSet = runs[r].dataSet
                   /\ runs'[r].errorSet = runs[r].errorSet
          /\ ~InFlight(r) /\ runs'[r].fetch # runs[r].fetch
                => data' = data /\ error' = error /\ loading' = loading
          /\ ~(runs'[r].dataSet /\ runs'[r].errorSet)
    /\ data' # data
          => \E r \in 1..Len(runs) :
                InFlight(r) /\ runs'[r].status = "resolved"
    /\ error' # error
          => \/ Len(runs') > Len(runs)
             \/ \E r \in 1..Len(runs) :
                   InFlight(r) /\ runs'[r].status = "rejected"

LatestRunOwnsState(rs, d, e) ==
    /\ \A r \in 1..(Len(rs) - 1) : rs[r].status # "pending"
    /\ rs # <<>> =>
          LET last == rs[Len(rs)] IN
          /\ last.status = "resolved"
                => d = finalChartData(ResultsOf(last.fetch)) /\ e = <<>>
          /\ last.status = "rejected"
                => \E k \in SourceKeys :
                      /\ last.fetch[k].pc = "thrown"
                      /\ e = <<ErrorText(last.fetch[k].thrown[1])>>

\* C19: after the run of the mount, a step starts a run only in a state
\* where loading is false and no run is in flight; so at most the latest
\* run is in flight, and when it has ended the data or the error is the one
\* it set, whatever fetchers of older runs have done since.
C19_Step ==
    /\ Len(runs') > Len(runs) /\ runs # <<>>
          => ~loading /\ \A r \in 1..Len(runs) : ~InFlight(r)
    /\ Len(runs') > Len(runs) /\ runs = <<>> => Len(runs') = 1
    /\ LatestRunOwnsState(runs, data, error)
    /\ LatestRunOwnsState(runs', data', error')

C19_RunsNeverOverlap == [][C19_Step]_vars

\* C19 witness: a run started after the first had failed has succeeded and
\* its series and the cleared error stand, though a fetcher of the first
\* run went on after that run's end.
C19_Witness ==
    /\ Len(runs) = 2
    /\ runs[1].status = "rejected"
    /\ runs[1].afterEnd
    /\ runs[2].status = "resolved"
    /\ data = SeriesOf(2) /\ data # <<>>
    /\ error = <<>> /\ ~loading

\* run r has been triggered
Triggered(r) == r <= Len(runs)

\* run r has just ended: it is the latest run, loading is false, and
\* either the data is the series it aggregated and the error is null, or
\* the error is a message
Ended(r) ==
    /\ r = Len(runs)
    /\ ~InFlight(r)
    /\ ~loading
    /\ \/ runs[r].status = "resolved" /\ data = SeriesOf(r) /\ error = <<>>
       \/ /\ runs[r].status = "rejected"
          /\ error # <<>> /\ error # <<EmptyMessage>>

\* C20: under fair scheduling every triggered run eventually ends: from
\* every state in which loading is true (the initial state, and every
\* state from the trigger of a run on) a state is reached in which the
\* latest run has ended, loading is false and either the data is the
\* series that run aggregated and the error is null, or the error is a
\* non-empty message.
C20_EveryRunEnds == loading ~> (runs # <<>> /\ Ended(Len(runs)))

\* C20 witness: a run that needed retries and another attempt has ended.
C20_Witness ==
    /\ Len(runs) = 2
    /\ Ended(2)
    /\ failures > 0
    /\ runs[1].status = "rejected"
    /\ runs[2].status = "resolved"

---------------------------------------------------------------------------
(* Properties of aggregation (SpecAgg) and of filtering (SpecView). *)

Loaded == runs # <<>>

Parsed(key) == parseCSV(served[key])

Bucketable(item) == DateTime(item.timestamp) # NaN

InstantOf(item) == TruncHour(DateTime(item.timestamp))

\* the bucketable records of all files, in the order aggregation meets them
RECURSIVE BucketableOf(_)
BucketableOf(items) ==
    IF items = <<>> THEN <<>>
    ELSE IF Bucketable(Head(items))
         THEN <<Head(items)>> \o BucketableOf(Tail(items))
         ELSE BucketableOf(Tail(items))

RECURSIVE AllBucketable(_)
AllBucketable(f) ==
    IF f > Len(ALL_CSV_FILES) THEN <<>>
    ELSE BucketableOf(Parsed(ALL_CSV_FILES[f].key)) \o AllBucketable(f + 1)

RECURSIVE SumAtInstant(_, _)
SumAtInstant(items, t) ==
    IF items = <<>> THEN 0
    ELSE (IF Bucketable(Head(items)) /\ InstantOf(Head(items)) = t
          THEN Head(items).value ELSE 0)
         + SumAtInstant(Tail(items), t)

RECURSIVE SumAtLabel(_, _)
SumAtLabel(items, hour) ==
    IF items = <<>> THEN 0
    ELSE (IF getHourlyKey(Head(items).timestamp) = hour
          THEN Head(items).value ELSE 0)
         + SumAtLabel(Tail(items), hour)

InstantsPresent ==
    {InstantOf(AllBucketable(1)[j]) : j \in 1..Len(AllBucketable(1))}

LabelsPresent ==
    {getHourlyKey(AllBucketable(1)[j].timestamp) :
        j \in 1..Len(AllBucketable(1))}

FirstInstantOf(hour) ==
    LET all == AllBucketable(1)
        j == CHOOSE j \in 1..Len(all) :
                /\ getHourlyKey(all[j].timestamp) = hour
                /\ \A m \in 1..(j - 1) : getHourlyKey(all[m].timestamp) # hour
    IN  InstantOf(all[j])

\* no two records of different hours carry the same label
NoLabelShared ==
    \A i, j \in 1..Len(AllBucketable(1)) :
        getHourlyKey(AllBucketable(1)[i].timestamp)
            = getHourlyKey(AllBucketable(1)[j].timestamp)
        => InstantOf(AllBucketable(1)[i]) = InstantOf(AllBucketable(1)[j])

\* C5 (as claimed): for the records of one source that fall in one hour
\* bucket (one hour-truncated instant), the row of that bucket holds for
\* that source the sum of those records' values.
C5_SumPerBucket ==
    Loaded =>
    \A key \in SourceKeys :
        \A j \in 1..Len(Parsed(key)) :
            Bucketable(Parsed(key)[j])
            => \E i \in 1..Len(data) :
                  /\ data[i].hour = getHourlyKey(Parsed(key)[j].timestamp)
                  /\ data[i][key]
                        = SumAtInstant(Parsed(key), InstantOf(Parsed(key)[j]))

\* C5 (amended): for the records of one source that carry one hour label,
\* the row of that label holds for that source the sum of those records'
\* values, whatever the order of the records.
C5_SumPerLabel ==
    Loaded =>
    \A key \in SourceKeys :
        \A j \in 1..Len(Parsed(key)) :
            Bucketable(Parsed(key)[j])
            => \E i \in 1..Len(data) :
                  /\ data[i].hour = getHourlyKey(Parsed(key)[j].timestamp)
                  /\ data[i][key]
                        = SumAtLabel(Parsed(key),
                                     getHourlyKey(Parsed(key)[j].timestamp))

\* C5 witness: two records of one source in the same hour have been
\* aggregated.
C5_Witness ==
    /\ Loaded
    /\ \E key \in SourceKeys :
          \E i, j \in 1..Len(Parsed(key)) :
              /\ i < j
              /\ Bucketable(Parsed(key)[i]) /\ Bucketable(Parsed(key)[j])
              /\ InstantOf(Parsed(key)[i]) = InstantOf(Parsed(key)[j])
              /\ Parsed(key)[i].timestamp # Parsed(key)[j].timestamp

\* C8 (as claimed): after a successful run there is exactly one row for
\* each hour-truncated instant of a bucketable record, it holds the values
\* of the records of that instant only, and no two rows share a sortTime.
C8_OneRowPerInstant ==
    Loaded =>
    /\ \A t \in InstantsPresent :
          /\ Cardinality({i \in 1..Len(data) : data[i].sortTime = t}) = 1
          /\ \A i \in 1..Len(data) :
                data[i].sortTime = t
                => \A key \in SourceKeys :
                      data[i][key] = SumAtInstant(Parsed(key), t)
    /\ Len(data) = Cardinality(InstantsPresent)
    /\ \A i, j \in 1..Len(data) :
          i # j => data[i].sortTime # data[j].sortTime

\* C8 (amended): after a successful run there is exactly one row for each
\* hour label of a bucketable record and no other row; the row holds the
\* values of the records of that label only, its sortTime is the truncated
\* instant of the first such record met, and no two rows share a label or
\* a sortTime.
C8_OneRowPerLabel ==
    Loaded =>
    /\ \A hour \in LabelsPresent :
          /\ Cardinality({i \in 1..Len(data) : data[i].hour = hour}) = 1
          /\ \A i \in 1..Len(data) :
                data[i].hour = hour
                => /\ data[i].sortTime = FirstInstantOf(hour)
                   /\ \A key \in SourceKeys :
                         data[i][key] = SumAtLabel(Parsed(key), hour)
    /\ Len(data) = Cardinality(LabelsPresent)
    /\ \A i, j \in 1..Len(data) :
          i # j => /\ data[i].sortTime # data[j].sortTime
                   /\ data[i].hour # data[j].hour

\* C8 witness: records of two hours have been aggregated into two rows.
C8_Witness ==
    /\ Loaded
    /\ Len(data) = 2
    /\ Cardinality(InstantsPresent) = 2

\* the texts with the data lines of each in another order
LineOrders(csvText) ==
    IF Len(csvText) < 2 THEN {csvText}
    ELSE {<<Head(csvText)>> \o [j \in 1..(Len(csvText) - 1) |->
                                   Tail(csvText)[pi[j]]] :
             pi \in Permutations(1..(Len(csvText) - 1))}

FileOrders == Permutations(FileIndex)

\* the payloads with the lines of each in some order
TextOrders ==
    LineOrders(served[ALL_CSV_FILES[1].key])
        \X LineOrders(served[ALL_CSV_FILES[2].key])
        \X LineOrders(served[ALL_CSV_FILES[3].key])
        \X LineOrders(served[ALL_CSV_FILES[4].key])

\* the results array of texts fed in the order p of the files
Reordered(p, texts) ==
    [n \in FileIndex |->
        [key |-> ALL_CSV_FILES[p[n]].key, csvText |-> texts[p[n]]]]

\* a row without its sortTime
Unsorted(row) == [f \in DOMAIN row \ {"sortTime"} |-> row[f]]

\* C9 (as claimed): aggregating the same records in any order of the
\* sources and of their records gives the identical series.
C9_AnyOrderSameSeries ==
    Loaded =>
    \A texts \in TextOrders : \A p \in FileOrders :
        finalChartData(Reordered(p, texts)) = data

\* C9 (amended): aggregating the same records in any order gives the same
\* rows by label with the same values; the sortTimes and the order of the
\* rows are the same too when no two records of different hours carry the
\* same label.
C9_AnyOrderSameRows ==
    Loaded =>
    LET rows == {Unsorted(data[i]) : i \in 1..Len(data)}
        same == NoLabelShared
    IN  \A texts \in TextOrders : \A p \in FileOrders :
            LET other == finalChartData(Reordered(p, texts)) IN
            IF same THEN other = data
            ELSE /\ Len(other) = Len(data)
                 /\ {Unsorted(other[i]) : i \in 1..Len(other)} = rows

\* C9 witness: two sources have given two rows, which the map met in the
\* order opposite to that of the series.
C9_Witness ==
    /\ Loaded
    /\ Len(data) = 2
    /\ NoLabelShared
    /\ \E k1, k2 \in SourceKeys :
          k1 # k2 /\ data[1][k1] > 0 /\ data[2][k2] > 0
    /\ AddResults(<<>>, ResultsOf(runs[1].fetch)) # data

\* C10: the filtered series is exactly the rows of the series whose
\* sortTime is at least the last row's sortTime less selectedRangeDays
\* days, in their order; it is empty for the empty series.  (It is a
\* function of the series and the window alone.)
C10_WindowFromLastRow ==
    LET InWindow(row) ==
            row.sortTime >= data[Len(data)].sortTime - selectedRangeDays * Day
    IN  filteredData = IF data = <<>> THEN <<>> ELSE SelectSeq(data, InWindow)

\* C10 witness: a row lies exactly on the lower bound of the window and is
\* kept.
C10_Witness ==
    /\ Loaded
    /\ Len(data) = 2
    /\ data[1].sortTime = data[2].sortTime - selectedRangeDays * Day
    /\ filteredData = data

---------------------------------------------------------------------------
(* Properties of the daily series (SpecDaily). *)

\* the series has one row for each of the ten days, in their order
DailySeriesLoaded ==
    /\ Loaded
    /\ Len(data) = 10
    /\ \A day \in 1..10 : data[day].sortTime = Jan2024(day)

\* C11 (as claimed): with the ten daily rows of 2024-01-01 .. 2024-01-10
\* and a window of 3 days the filter returns exactly the three rows of
\* 2024-01-08, 2024-01-09 and 2024-01-10.
C11_ThreeDaysThreeRows ==
    DailySeriesLoaded /\ selectedRangeDays = 3
    => /\ Len(filteredData) = 3
       /\ \A n \in 1..3 : filteredData[n] = data[7 + n]

\* C11 (amended): with the ten daily rows of 2024-01-01 .. 2024-01-10 and
\* a window of 3 days the filter returns exactly the four rows of
\* 2024-01-07, 2024-01-08, 2024-01-09 and 2024-01-10: the row that lies
\* exactly 3 days before the last one is within the window.
C11_ThreeDaysFourRows ==
    DailySeriesLoaded /\ selectedRangeDays = 3
    => /\ Len(filteredData) = 4
       /\ \A n \in 1..4 :
             /\ filteredData[n] = data[6 + n]
             /\ filteredData[n].sortTime = Jan2024(6 + n)

\* C11 witness: the ten daily rows are loaded and the window is 3 days.
C11_Witness ==
    /\ DailySeriesLoaded
    /\ selectedRangeDays = 3
    /\ Len(filteredData) < Len(data)

---------------------------------------------------------------------------
(* Properties of the statistics (SpecStats). *)

\* the rows of the window that have labor
Worked == SelectSeq(filteredData, LAMBDA row : row.packers + row.pickers > 0)

\* sum over rows of labels / labor, from the last row to the first
RECURSIVE EfficiencySum(_)
EfficiencySum(rows) ==
    IF rows = <<>> THEN Frac(0, 1)
    ELSE LET last == rows[Len(rows)]
             rest == EfficiencySum(SubSeq(rows, 1, Len(rows) - 1))
         IN  Frac(rest.n * (last.packers + last.pickers) + last.labels * rest.d,
                  rest.d * (last.packers + last.pickers))

FracEq(a, b) == a.n * b.d = b.n * a.d

\* the two rows of the example: no labor and 10 labels, then 2 packers,
\* 3 pickers and 10 labels
ExampleRows ==
    /\ Len(filteredData) = 2
    /\ filteredData[1].packers = 0 /\ filteredData[1].pickers = 0
    /\ filteredData[1].labels = 10
    /\ filteredData[2].packers = 2 /\ filteredData[2].pickers = 3
    /\ filteredData[2].labels = 10

\* C14: the efficiency statistics are those of the rows of the window with
\* packers + pickers > 0 alone: the series has one element labels / labor
\* for each such row and none for a row without labor, the average divides
\* their sum by their number, min and max are their least and greatest
\* (all three 0 when no row has labor); for the rows (0, 0, 10 labels) and
\* (2 packers, 3 pickers, 10 labels) the average, min and max are 2.
C14_EfficiencyOfWorkedRows ==
    Loaded =>
    LET series == hourlyEfficiency(filteredData)
        stats == SummaryWidget(filteredData).labelsPerLabor
        sum == EfficiencySum(Worked)
    IN  /\ Len(series) = Len(Worked)
        /\ \A i \in 1..Len(Worked) :
              series[i] = Frac(Worked[i].labels,
                               Worked[i].packers + Worked[i].pickers)
        /\ Worked = <<>> =>
              stats.min.n = 0 /\ stats.max.n = 0 /\ stats.avg.n = 0
        /\ Worked # <<>> =>
              /\ FracEq(stats.avg, Frac(sum.n, sum.d * Len(Worked)))
              /\ \E i \in 1..Len(series) : FracEq(stats.min, series[i])
              /\ \E i \in 1..Len(series) : FracEq(stats.max, series[i])
              /\ \A i \in 1..Len(series) :
                    /\ ~FracLess(series[i], stats.min)
                    /\ ~FracLess(stats.max, series[i])
        /\ ExampleRows =>
              /\ FracEq(stats.avg, Frac(2, 1))
              /\ FracEq(stats.min, Frac(2, 1))
              /\ FracEq(stats.max, Frac(2, 1))

\* C14 witness: the window is the two rows of the example.
C14_Witness ==
    /\ Loaded
    /\ ExampleRows
    /\ FracEq(SummaryWidget(filteredData).labelsPerLabor.avg, Frac(10, 5))

\* the UTC dates the rows of the window fall in
DatesOf(rows) == {rows[i].sortTime \div Day : i \in 1..Len(rows)}

RECURSIVE DailySum(_, _, _)
DailySum(rows, metric, date) ==
    IF rows = <<>> THEN 0
    ELSE (IF Head(rows).sortTime \div Day = date
          THEN Head(rows)[metric] ELSE 0)
         + DailySum(Tail(rows), metric, date)

\* the date of the greatest sum, the earliest of them when several share it
PeakDate(rows, metric) ==
    CHOOSE d \in DatesOf(rows) :
        \A e \in DatesOf(rows) :
            \/ DailySum(rows, metric, d) > DailySum(rows, metric, e)
            \/ /\ DailySum(rows, metric, d) = DailySum(rows, metric, e)
               /\ d <= e

\* C15 (as claimed): for every non-empty window the daily peak of orders
\* and that of labels is the date, among the dates the rows fall in, whose
\* sum of the metric is the greatest (the earliest such date when several
\* share it), reported with that sum.
C15_DailyPeakIsGreatestDate ==
    Loaded /\ filteredData # <<>> =>
    LET aggregates == SummaryWidget(filteredData) IN
    /\ aggregates.maxDailyOrders =
          [count |-> DailySum(filteredData, "orders",
                              PeakDate(filteredData, "orders")),
           date |-> <<PeakDate(filteredData, "orders")>>]
    /\ aggregates.maxDailyLabels =
          [count |-> DailySum(filteredData, "labels",
                              PeakDate(filteredData, "labels")),
           date |-> <<PeakDate(filteredData, "labels")>>]

===========================================================================
